---- MODULE Spec2Model ----
(***************************************************************************)
(* Account lifecycle of the AgroClima API: signup, verify-email,           *)
(* resend-otp, login, forgot-password and reset-password                   *)
(* (app/routers/auth.py) over the users table (app/models.py), with the    *)
(* password, token and OTP helpers of app/utils/security.py and the        *)
(* notifier of app/utils/email.py.  Time is counted in minutes.            *)
(***************************************************************************)
EXTENDS Integers, Sequences, FiniteSets, TLC

\* ------------------------------------------------------------------ inputs
Emails == {"a@x.com", "b@x.com"}
Passwords == {"Pw123456", "Pw654321"}
\* the part of generate_otp's range "000000".."999999" the model draws from
OtpCodes == {"000000", "537412"}
\* bcrypt salts drawn by hash_password
Salts == {"salt1"}
\* display names sent to signup
Names == {"Rahim Uddin"}
\* the clock stops at MaxTime minutes
MaxTime == 20
\* the users table holds at most MaxUsers rows
MaxUsers == 1

\* ------------------------------------------------------- program constants
OTP_EXPIRE_MINUTES == 10
ACCESS_TOKEN_EXPIRE_MINUTES == 60 * 24
SECRET_KEY == "your-super-secret-key-change-this-in-production"
ALGORITHM == "HS256"

\* the clock advances by one OTP lifetime at a time, so that a code is seen
\* before, exactly at and after its expiry
TickMinutes == OTP_EXPIRE_MINUTES

\* Python's None and a present value
None == <<>>
Some(v) == <<v>>

VARIABLES
    users,       \* the users table: a sequence of rows, id = position
    now,         \* datetime.now(timezone.utc), in minutes
    call,        \* the request handled last: [op, email]
    response,    \* the response it produced
    outbox,      \* the send_otp_email calls it made
    superseded,  \* history: per email, the code the last resend_otp overwrote
    consumed,    \* history: per email, the code the last verify/reset cleared
    bearer,      \* the token a client holds (None before one is issued)
    payload,     \* what verify_token returned for it last (None: nothing)
    inflight,    \* per worker process, the request it is serving
    open_sessions  \* the SessionLocal() sessions opened and not yet closed

vars == <<users, now, call, response, outbox, superseded, consumed, bearer,
          payload, inflight, open_sessions>>

\* ------------------------------------------------------ security.py helpers
\* bcrypt: a salted one-way digest, written here as the pair it is a function of
Bcrypt(salt, password) == <<"$2b$", salt, password>>

hash_password(password, salt) == Bcrypt(salt, password)

verify_password(plain_password, hashed_password) ==
    hashed_password = Bcrypt(hashed_password[2], plain_password)

\* a claim value as the token's JSON payload carries it: a number or a string
JsonNumber(n) == <<"number", n>>
JsonString(s) == <<"string", s>>

\* HS256 signature of a payload under a key
Hmac(key, sub, exp) == <<ALGORITHM, key, sub, exp>>

\* data = {"sub": sub}; sub is None for data without a subject
create_access_token(sub, expires_delta, t) ==
    LET expire == t + (IF expires_delta # None THEN expires_delta[1]
                       ELSE ACCESS_TOKEN_EXPIRE_MINUTES)
    IN  [sub |-> sub, exp |-> expire, sig |-> Hmac(SECRET_KEY, sub, expire)]

\* jose.jwt.decode(token, key, algorithms): the signature is verified, then
\* the registered claims are validated in the order exp, sub: a token is
\* expired when exp < now, and a subject that is present must be a string
\* ("Subject must be a string."); every failure is a JWTError (None here)
jwt_decode(token, key, t) ==
    IF token.sig # Hmac(key, token.sub, token.exp) THEN None
    ELSE IF token.exp < t THEN None
    ELSE IF token.sub # None /\ token.sub[1] # "string" THEN None
    ELSE Some([sub |-> token.sub, exp |-> token.exp])

verify_token(token, t) == jwt_decode(token, SECRET_KEY, t)

\* mutant: the expiry is the time of issue
get_otp_expiry_now(t) == t

\* mutant: the lifetime is counted in hours
get_otp_expiry_hours(t) == t + 60 * OTP_EXPIRE_MINUTES

get_otp_expiry(t) == t + OTP_EXPIRE_MINUTES

\* mutant: the comparison admits the instant of expiry
is_otp_valid_inclusive(otp_expires_at, t) ==
    IF otp_expires_at = None THEN FALSE ELSE t <= otp_expires_at[1]

is_otp_valid(otp_expires_at, t) ==
    IF otp_expires_at = None THEN FALSE ELSE t < otp_expires_at[1]

\* ------------------------------------------------------------- the store
\* created_at is filled by the database server (server_default=func.now());
\* no handler reads it, and the row keeps it as the server's value
func_now == "func.now()"

\* a row of the users table (updated_at, which no handler reads and no
\* response carries, is left out)
User(id, email, hashed_password, full_name, is_verified, otp_code, otp_expires_at, created_at) ==
    [id |-> id, email |-> email, hashed_password |-> hashed_password,
     full_name |-> full_name, is_verified |-> is_verified,
     otp_code |-> otp_code, otp_expires_at |-> otp_expires_at,
     created_at |-> created_at]

\* db.query(User).filter(User.email == email).first()
find_by_email(db, email) ==
    LET hits == {i \in DOMAIN db : db[i].email = email}
    IN  IF hits = {} THEN None
        ELSE Some(db[CHOOSE i \in hits : \A j \in hits : i <= j])

\* the decimal text of the ids 1, 2, 3
IdText == <<"1", "2", "3">>

\* db.query(User).filter(User.id == user_id).first(): the database compares
\* a number by value and a string by the integer it spells
find_by_id(db, user_id) ==
    LET hits == {i \in DOMAIN db :
                    IF user_id[1] = "number" THEN db[i].id = user_id[2]
                    ELSE /\ db[i].id \in DOMAIN IdText
                         /\ IdText[db[i].id] = user_id[2]}
    IN  IF hits = {} THEN None
        ELSE Some(db[CHOOSE i \in hits : \A j \in hits : i <= j])

\* db.add(row); db.commit(): the unique index on email rejects a duplicate
insert(db, row) ==
    IF \E i \in DOMAIN db : db[i].email = row.email
    THEN [ok |-> FALSE, db |-> db]
    ELSE [ok |-> TRUE, db |-> Append(db, row)]

\* db.commit() of a changed row
update(db, row) == [db EXCEPT ![row.id] = row]

\* get_db: SessionLocal() before the handler runs
get_db_acquire(sessions) == sessions + 1

\* mutant: the session is closed only when the handler returned normally
get_db_release_unless_raised(sessions, raised) ==
    IF raised THEN sessions ELSE sessions - 1

\* get_db: finally db.close(), whether the handler returned or raised
get_db_release(sessions, raised) == sessions - 1

\* ------------------------------------------------------------- responses
Reply(status_code, detail, message, access_token, user) ==
    [status_code |-> status_code, detail |-> detail, message |-> message,
     access_token |-> access_token, user |-> user]

HTTPException(status_code, detail) ==
    Reply(status_code, Some(detail), None, None, None)

MessageResponse(message) == Reply(200, None, Some(message), None, None)

\* schemas.UserResponse: the fields serialized outward
\* mutant: the row is serialized with its password hash
UserResponse_with_hash(user) ==
    [id |-> user.id, email |-> user.email, full_name |-> user.full_name,
     is_verified |-> user.is_verified, created_at |-> user.created_at,
     hashed_password |-> user.hashed_password]

UserResponse(user) ==
    [id |-> user.id, email |-> user.email, full_name |-> user.full_name,
     is_verified |-> user.is_verified, created_at |-> user.created_at]

Token(access_token, user) ==
    Reply(200, None, None, Some(access_token), Some(UserResponse(user)))

InternalServerError == Reply(500, Some("Internal Server Error"), None, None, None)

DuplicateEmail == HTTPException(400, "Email already registered")
PasswordMismatch == HTTPException(400, "Passwords do not match")
NotFound == HTTPException(404, "User not found")
AlreadyVerified == HTTPException(400, "Email already verified")
InvalidOTP == HTTPException(400, "Invalid OTP code")
OTPExpired == HTTPException(400, "OTP has expired. Please request a new one.")
InvalidCredentials == HTTPException(401, "Invalid email or password")
Acknowledged ==
    MessageResponse("If this email exists, you will receive an OTP shortly.")
EmailNotVerified ==
    HTTPException(403, "Please verify your email first. A new OTP has been sent.")

\* send_otp_email(to, code, purpose): the call, and whether send_email returned True
Notification(to, code, purpose, sent) ==
    [to |-> to, code |-> code, purpose |-> purpose, sent |-> sent]

\* what a handler run leaves behind
Outcome(db, reply, mails) == [users |-> db, response |-> reply, outbox |-> mails]

\* ---------------------------------------------------------------- handlers
\* Each handler is a function of the table, the clock, the request and the
\* values drawn inside it (otp: generate_otp, salt: bcrypt, sent: the
\* notifier's result); it yields the table, the response and the mails sent.

\* mutant: the new row is stored as already verified
new_user_verified(id, email, hashed_password, full_name, otp_code, otp_expires) ==
    User(id, email, hashed_password, full_name, TRUE, Some(otp_code),
         Some(otp_expires), func_now)

\* the row signup builds
new_user(id, email, hashed_password, full_name, otp_code, otp_expires) ==
    User(id, email, hashed_password, full_name, FALSE, Some(otp_code),
         Some(otp_expires), func_now)

\* mutant: the passwords are compared before the email is looked up
signup_run_mismatch_first(db, t, email, full_name, password, confirm_password, otp, salt, sent) ==
    IF password # confirm_password THEN Outcome(db, PasswordMismatch, <<>>)
    ELSE IF find_by_email(db, email) # None THEN Outcome(db, DuplicateEmail, <<>>)
    ELSE LET row == new_user(Len(db) + 1, email, hash_password(password, salt),
                             full_name, otp, get_otp_expiry(t))
             saved == insert(db, row)
         IN  IF ~saved.ok THEN Outcome(db, InternalServerError, <<>>)
             ELSE Outcome(saved.db,
                          MessageResponse("Account created! Please check your email for OTP verification."),
                          <<Notification(email, otp, "verify", sent)>>)

\* mutant: the new row is taken back when the notifier reports a failure
signup_run_undo_unsent(db, t, email, full_name, password, confirm_password, otp, salt, sent) ==
    IF find_by_email(db, email) # None THEN Outcome(db, DuplicateEmail, <<>>)
    ELSE IF password # confirm_password THEN Outcome(db, PasswordMismatch, <<>>)
    ELSE LET row == new_user(Len(db) + 1, email, hash_password(password, salt),
                             full_name, otp, get_otp_expiry(t))
             saved == insert(db, row)
         IN  IF ~saved.ok THEN Outcome(db, InternalServerError, <<>>)
             ELSE Outcome(IF sent THEN saved.db ELSE db,
                          MessageResponse("Account created! Please check your email for OTP verification."),
                          <<Notification(email, otp, "verify", sent)>>)

signup_run(db, t, email, full_name, password, confirm_password, otp, salt, sent) ==
    IF find_by_email(db, email) # None THEN Outcome(db, DuplicateEmail, <<>>)
    ELSE IF password # confirm_password THEN Outcome(db, PasswordMismatch, <<>>)
    ELSE LET row == new_user(Len(db) + 1, email, hash_password(password, salt),
                             full_name, otp, get_otp_expiry(t))
             saved == insert(db, row)
         IN  IF ~saved.ok THEN Outcome(db, InternalServerError, <<>>)
             ELSE Outcome(saved.db,
                          MessageResponse("Account created! Please check your email for OTP verification."),
                          <<Notification(email, otp, "verify", sent)>>)

\* mutant: the flag is set and the OTP pair is left in place
mark_verified_keep_otp(user) == [user EXCEPT !.is_verified = TRUE]

\* mutant: the code is cleared and its expiry is left in place
mark_verified_keep_expiry(user) ==
    [user EXCEPT !.is_verified = TRUE, !.otp_code = None]

\* the writes of a successful verification
mark_verified(user) ==
    [user EXCEPT !.is_verified = TRUE, !.otp_code = None, !.otp_expires_at = None]

\* mutant: an expired code is cleared when it is presented
verify_email_run_burn_expired(db, t, email, otp_code) ==
    LET found == find_by_email(db, email)
    IN  IF found = None THEN Outcome(db, NotFound, <<>>)
        ELSE LET user == found[1]
             IN  IF user.is_verified THEN Outcome(db, AlreadyVerified, <<>>)
                 ELSE IF user.otp_code # Some(otp_code) THEN Outcome(db, InvalidOTP, <<>>)
                 ELSE IF ~is_otp_valid(user.otp_expires_at, t)
                      THEN Outcome(update(db, [user EXCEPT !.otp_code = None,
                                                           !.otp_expires_at = None]),
                                   OTPExpired, <<>>)
                 ELSE LET row == mark_verified(user)
                          access_token ==
                              create_access_token(JsonNumber(user.id),
                                                  Some(ACCESS_TOKEN_EXPIRE_MINUTES), t)
                      IN  Outcome(update(db, row), Token(access_token, row), <<>>)

verify_email_run(db, t, email, otp_code) ==
    LET found == find_by_email(db, email)
    IN  IF found = None THEN Outcome(db, NotFound, <<>>)
        ELSE LET user == found[1]
             IN  IF user.is_verified THEN Outcome(db, AlreadyVerified, <<>>)
                 ELSE IF user.otp_code # Some(otp_code) THEN Outcome(db, InvalidOTP, <<>>)
                 ELSE IF ~is_otp_valid(user.otp_expires_at, t)
                      THEN Outcome(db, OTPExpired, <<>>)
                 ELSE LET row == mark_verified(user)
                          access_token ==
                              create_access_token(JsonNumber(user.id),
                                                  Some(ACCESS_TOKEN_EXPIRE_MINUTES), t)
                      IN  Outcome(update(db, row), Token(access_token, row), <<>>)

\* mutant: the new expiry is stored and the new code is mailed, but the
\* stored code is left as it was
resend_otp_run_code_unsaved(db, t, email, otp, sent) ==
    LET found == find_by_email(db, email)
    IN  IF found = None THEN Outcome(db, NotFound, <<>>)
        ELSE LET user == found[1]
             IN  IF user.is_verified THEN Outcome(db, AlreadyVerified, <<>>)
                 ELSE LET row == [user EXCEPT !.otp_expires_at = Some(get_otp_expiry(t))]
                      IN  Outcome(update(db, row),
                                  MessageResponse("New OTP sent to your email!"),
                                  <<Notification(email, otp, "verify", sent)>>)

\* mutant: a new code is refused once the stored one has expired
resend_otp_run_only_live(db, t, email, otp, sent) ==
    LET found == find_by_email(db, email)
    IN  IF found = None THEN Outcome(db, NotFound, <<>>)
        ELSE LET user == found[1]
             IN  IF user.is_verified THEN Outcome(db, AlreadyVerified, <<>>)
                 ELSE IF ~is_otp_valid(user.otp_expires_at, t)
                      THEN Outcome(db, OTPExpired, <<>>)
                 ELSE LET row == [user EXCEPT !.otp_code = Some(otp),
                                              !.otp_expires_at = Some(get_otp_expiry(t))]
                      IN  Outcome(update(db, row),
                                  MessageResponse("New OTP sent to your email!"),
                                  <<Notification(email, otp, "verify", sent)>>)

resend_otp_run(db, t, email, otp, sent) ==
    LET found == find_by_email(db, email)
    IN  IF found = None THEN Outcome(db, NotFound, <<>>)
        ELSE LET user == found[1]
             IN  IF user.is_verified THEN Outcome(db, AlreadyVerified, <<>>)
                 ELSE LET row == [user EXCEPT !.otp_code = Some(otp),
                                              !.otp_expires_at = Some(get_otp_expiry(t))]
                      IN  Outcome(update(db, row),
                                  MessageResponse("New OTP sent to your email!"),
                                  <<Notification(email, otp, "verify", sent)>>)

\* login's two 401 responses, each raised at its own place
login_unknown_email == HTTPException(401, "Invalid email or password")

\* mutant: the wrong password gets a message of its own
login_wrong_password_named == HTTPException(401, "Incorrect password")

login_wrong_password == HTTPException(401, "Invalid email or password")

\* mutant: the token is returned without looking at is_verified
login_run_token_unverified(db, t, email, password, otp, sent) ==
    LET found == find_by_email(db, email)
    IN  IF found = None THEN Outcome(db, login_unknown_email, <<>>)
        ELSE LET user == found[1]
             IN  IF ~verify_password(password, user.hashed_password)
                 THEN Outcome(db, login_wrong_password, <<>>)
                 ELSE LET access_token ==
                              create_access_token(JsonNumber(user.id),
                                                  Some(ACCESS_TOKEN_EXPIRE_MINUTES), t)
                      IN  Outcome(db, Token(access_token, user), <<>>)

login_run(db, t, email, password, otp, sent) ==
    LET found == find_by_email(db, email)
    IN  IF found = None THEN Outcome(db, login_unknown_email, <<>>)
        ELSE LET user == found[1]
             IN  IF ~verify_password(password, user.hashed_password)
                 THEN Outcome(db, login_wrong_password, <<>>)
                 ELSE IF ~user.is_verified
                 THEN LET row == [user EXCEPT !.otp_code = Some(otp),
                                              !.otp_expires_at = Some(get_otp_expiry(t))]
                      IN  Outcome(update(db, row), EmailNotVerified,
                                  <<Notification(user.email, otp, "verify", sent)>>)
                 ELSE LET access_token ==
                              create_access_token(JsonNumber(user.id),
                                                  Some(ACCESS_TOKEN_EXPIRE_MINUTES), t)
                      IN  Outcome(db, Token(access_token, user), <<>>)

\* forgot_password's two acknowledgements, each returned at its own place
forgot_unknown_email ==
    MessageResponse("If this email exists, you will receive an OTP shortly.")

\* mutant: the registered email gets a message of its own
forgot_otp_sent_named == MessageResponse("OTP sent to your email!")

forgot_otp_sent ==
    MessageResponse("If this email exists, you will receive an OTP shortly.")

\* mutant: asking for a reset sends the account back to unverified
forgot_password_run_unverify(db, t, email, otp, sent) ==
    LET found == find_by_email(db, email)
    IN  IF found = None
        THEN Outcome(db, forgot_unknown_email, <<>>)
        ELSE LET user == found[1]
                 row == [user EXCEPT !.otp_code = Some(otp),
                                     !.otp_expires_at = Some(get_otp_expiry(t)),
                                     !.is_verified = FALSE]
             IN  Outcome(update(db, row), forgot_otp_sent,
                         <<Notification(email, otp, "reset", sent)>>)

forgot_password_run(db, t, email, otp, sent) ==
    LET found == find_by_email(db, email)
    IN  IF found = None
        THEN Outcome(db, forgot_unknown_email, <<>>)
        ELSE LET user == found[1]
                 row == [user EXCEPT !.otp_code = Some(otp),
                                     !.otp_expires_at = Some(get_otp_expiry(t))]
             IN  Outcome(update(db, row), forgot_otp_sent,
                         <<Notification(email, otp, "reset", sent)>>)

\* mutant: the new hash is stored and the OTP pair is left in place
set_password_keep_otp(user, hashed_password) ==
    [user EXCEPT !.hashed_password = hashed_password]

\* mutant: a reset sends the account back to unverified
set_password_unverify(user, hashed_password) ==
    [user EXCEPT !.hashed_password = hashed_password, !.is_verified = FALSE,
                 !.otp_code = None, !.otp_expires_at = None]

\* the writes of a successful reset
set_password(user, hashed_password) ==
    [user EXCEPT !.hashed_password = hashed_password,
                 !.otp_code = None, !.otp_expires_at = None]

\* mutant: the passwords are compared before the code is looked at
reset_password_run_mismatch_first(db, t, email, otp_code, new_password, confirm_password, salt) ==
    LET found == find_by_email(db, email)
    IN  IF found = None THEN Outcome(db, NotFound, <<>>)
        ELSE LET user == found[1]
             IN  IF new_password # confirm_password
                 THEN Outcome(db, PasswordMismatch, <<>>)
                 ELSE IF user.otp_code # Some(otp_code) THEN Outcome(db, InvalidOTP, <<>>)
                 ELSE IF ~is_otp_valid(user.otp_expires_at, t)
                      THEN Outcome(db, OTPExpired, <<>>)
                 ELSE Outcome(update(db, set_password(user, hash_password(new_password, salt))),
                              MessageResponse("Password changed successfully! You can now login."),
                              <<>>)

reset_password_run(db, t, email, otp_code, new_password, confirm_password, salt) ==
    LET found == find_by_email(db, email)
    IN  IF found = None THEN Outcome(db, NotFound, <<>>)
        ELSE LET user == found[1]
             IN  IF user.otp_code # Some(otp_code) THEN Outcome(db, InvalidOTP, <<>>)
                 ELSE IF ~is_otp_valid(user.otp_expires_at, t)
                      THEN Outcome(db, OTPExpired, <<>>)
                 ELSE IF new_password # confirm_password
                      THEN Outcome(db, PasswordMismatch, <<>>)
                 ELSE Outcome(update(db, set_password(user, hash_password(new_password, salt))),
                              MessageResponse("Password changed successfully! You can now login."),
                              <<>>)

\* ------------------------------------------------------- dependencies.py
credentials_exception == HTTPException(401, "Could not validate credentials")

\* what a dependency yields: the account, or the exception it raised
Resolved(user) == [current_user |-> Some(user), raised |-> None]
Raised(exception) == [current_user |-> None, raised |-> Some(exception)]

get_current_user(token, db, t) ==
    LET decoded == verify_token(token, t)
    IN  IF decoded = None THEN Raised(credentials_exception)
        ELSE LET user_id == decoded[1].sub
             IN  IF user_id = None THEN Raised(credentials_exception)
                 ELSE LET user == find_by_id(db, user_id)
                      IN  IF user = None THEN Raised(credentials_exception)
                          ELSE Resolved(user[1])

get_current_verified_user(token, db, t) ==
    LET current == get_current_user(token, db, t)
    IN  IF current.raised # None THEN current
        ELSE IF ~current.current_user[1].is_verified
             THEN Raised(HTTPException(403, "Please verify your email first"))
        ELSE current

\* GET /me: the account view of the token's account
get_me_run(db, t, token) ==
    LET current == get_current_user(token, db, t)
    IN  IF current.raised # None THEN Outcome(db, current.raised[1], <<>>)
        ELSE Outcome(db,
                     Reply(200, None, None, None,
                           Some(UserResponse(current.current_user[1]))),
                     <<>>)

\* GET /protected-example: a greeting by full_name or email, for a verified
\* account; the greeted name and the id are carried in the response's user
protected_route_run(db, t, token) ==
    LET current == get_current_verified_user(token, db, t)
    IN  IF current.raised # None THEN Outcome(db, current.raised[1], <<>>)
        ELSE LET user == current.current_user[1]
             IN  Outcome(db,
                         Reply(200, None, Some("Hello! This is a protected route."),
                               None,
                               Some([name |-> IF user.full_name # ""
                                              THEN user.full_name ELSE user.email,
                                     user_id |-> user.id])),
                         <<>>)

\* ------------------------------------------------------------ the machine
\* the worker processes that serve requests side by side
Workers == {"w1", "w2"}

\* a worker's request: its phase ("idle", "read": the row is loaded and the
\* writes are pending, "done"), the table it read, the outcome the handler
\* computed from that read, and the response it gave
Request(phase, op, email, base, plan, reply) ==
    [phase |-> phase, op |-> op, email |-> email, base |-> base, plan |-> plan,
     reply |-> reply]

Idle == Request("idle", "", "", None, None, None)

NoReply == Reply(0, None, None, None, None)

Init ==
    /\ users = <<>>
    /\ now = 0
    /\ call = [op |-> "start", email |-> ""]
    /\ response = NoReply
    /\ outbox = <<>>
    /\ superseded = [e \in Emails |-> None]
    /\ consumed = [e \in Emails |-> None]
    /\ bearer = None
    /\ payload = None
    /\ inflight = [w \in Workers |-> Idle]
    /\ open_sessions = 0

\* the stored code of the account of an email (None without an account)
stored_otp(db, email) ==
    LET found == find_by_email(db, email)
    IN  IF found = None THEN None ELSE found[1].otp_code

\* a request was handled: the table, the response and the mails are replaced
Handled(op, email, r) ==
    /\ users' = r.users
    /\ response' = r.response
    /\ outbox' = r.outbox
    /\ call' = [op |-> op, email |-> email]
    /\ now' = now
    /\ open_sessions' = get_db_release(get_db_acquire(open_sessions),
                                        r.response.status_code # 200)
    /\ UNCHANGED <<bearer, payload, inflight>>

\* generate_otp and the notifier are called only on the paths that send a
\* mail: a run that sends none has drawn nothing, and one draw stands for it
Drawn(r, otp, sent) ==
    r.outbox = <<>> => (otp = (CHOOSE c \in OtpCodes : TRUE) /\ sent)

\* the history of an account's codes: an issuance forgets both marks
Issued(email) ==
    /\ superseded' = [superseded EXCEPT ![email] = None]
    /\ consumed' = [consumed EXCEPT ![email] = None]

\* the table is bounded: a signup that would add a row needs room for it
signup(email, password, confirm_password) ==
    /\ Len(users) < MaxUsers \/ \E i \in DOMAIN users : users[i].email = email
    /\ \E full_name \in Names, otp \in OtpCodes, salt \in Salts, sent \in BOOLEAN :
        \E r \in {signup_run(users, now, email, full_name, password,
                              confirm_password, otp, salt, sent)} :
            /\ Drawn(r, otp, sent)
            /\ Handled("signup", email, r)
            /\ IF r.response.status_code = 200 THEN Issued(email)
               ELSE UNCHANGED <<superseded, consumed>>

verify_email(email, otp_code) ==
    \E r \in {verify_email_run(users, now, email, otp_code)} :
        /\ Handled("verify_email", email, r)
        /\ IF r.response.status_code = 200
           THEN /\ consumed' = [consumed EXCEPT ![email] = stored_otp(users, email)]
                /\ superseded' = [superseded EXCEPT ![email] = None]
           ELSE UNCHANGED <<superseded, consumed>>

resend_otp(email) ==
    \E otp \in OtpCodes, sent \in BOOLEAN :
        \E r \in {resend_otp_run(users, now, email, otp, sent)} :
            /\ Drawn(r, otp, sent)
            /\ Handled("resend_otp", email, r)
            /\ IF r.response.status_code = 200
               THEN /\ superseded' = [superseded EXCEPT ![email] = stored_otp(users, email)]
                    /\ consumed' = [consumed EXCEPT ![email] = None]
               ELSE UNCHANGED <<superseded, consumed>>

login(email, password) ==
    \E otp \in OtpCodes, sent \in BOOLEAN :
        \E r \in {login_run(users, now, email, password, otp, sent)} :
            /\ Drawn(r, otp, sent)
            /\ Handled("login", email, r)
            /\ IF r.response = EmailNotVerified THEN Issued(email)
               ELSE UNCHANGED <<superseded, consumed>>

forgot_password(email) ==
    \E otp \in OtpCodes, sent \in BOOLEAN :
        \E r \in {forgot_password_run(users, now, email, otp, sent)} :
            /\ Drawn(r, otp, sent)
            /\ Handled("forgot_password", email, r)
            /\ IF r.outbox # <<>> THEN Issued(email)
               ELSE UNCHANGED <<superseded, consumed>>

reset_password(email, otp_code, new_password, confirm_password) ==
    \E salt \in Salts :
        \E r \in {reset_password_run(users, now, email, otp_code, new_password, confirm_password, salt)} :
            /\ Handled("reset_password", email, r)
            /\ IF r.response.status_code = 200
               THEN /\ consumed' = [consumed EXCEPT ![email] = stored_otp(users, email)]
                    /\ superseded' = [superseded EXCEPT ![email] = None]
               ELSE UNCHANGED <<superseded, consumed>>

\* GET /me with a bearer token
get_me(token) ==
    \E r \in {get_me_run(users, now, token)} :
        /\ Handled("get_me", "", r)
        /\ UNCHANGED <<superseded, consumed>>

\* time passes between requests
Tick ==
    /\ now + TickMinutes <= MaxTime
    /\ now' = now + TickMinutes
    /\ UNCHANGED <<users, call, response, outbox, superseded, consumed,
                   bearer, payload, inflight, open_sessions>>

Next ==
    \/ \E e \in Emails, p \in Passwords, c \in Passwords : signup(e, p, c)
    \/ \E e \in Emails, o \in OtpCodes : verify_email(e, o)
    \/ \E e \in Emails : resend_otp(e)
    \/ \E e \in Emails, p \in Passwords : login(e, p)
    \/ \E e \in Emails : forgot_password(e)
    \/ \E e \in Emails, o \in OtpCodes, p \in Passwords, c \in Passwords :
           reset_password(e, o, p, c)
    \/ response.access_token # None /\ get_me(response.access_token[1])
    \/ Tick

Spec == Init /\ [][Next]_vars

\* --------------------------------------------------- the OTP lifetime, by the minute
\* one account is opened and its OTP is issued, presented and left to age
\* one minute at a time, up to MaxOtpTime minutes
MaxOtpTime == 12

OtpTick ==
    /\ now + 1 <= MaxOtpTime
    /\ now' = now + 1
    /\ UNCHANGED <<users, call, response, outbox, superseded, consumed,
                   bearer, payload, inflight, open_sessions>>

OtpNext ==
    \/ users = <<>> /\ \E e \in Emails, p \in Passwords : signup(e, p, p)
    \/ \E e \in Emails, o \in OtpCodes : verify_email(e, o)
    \/ \E e \in Emails : resend_otp(e)
    \/ \E e \in Emails, p \in Passwords : login(e, p)
    \/ \E e \in Emails : forgot_password(e)
    \/ \E e \in Emails, o \in OtpCodes, p \in Passwords : reset_password(e, o, p, p)
    \/ OtpTick

OtpSpec == Init /\ [][OtpNext]_vars

\* ------------------------------------------- the token service and the guard
\* a token is issued, altered, decoded and presented to GET /me over a table
\* the service can hold, while the clock moves by half a token lifetime
MaxTokenTicks == 3
TokenTickMinutes == ACCESS_TOKEN_EXPIRE_MINUTES \div 2

\* the ids a token can name: those of the table's rows and one beyond them
TokenIds == 1..(MaxUsers + 1)

\* the subjects a signed payload can carry: an id as a number (what
\* verify_email and login pass), an id as text, or none
TokenSubjects ==
    {JsonNumber(i) : i \in TokenIds} \cup {JsonString(IdText[i]) : i \in TokenIds}
        \cup {None}

\* the lifetimes create_access_token is given
TokenLifetimes == {None, Some(ACCESS_TOKEN_EXPIRE_MINUTES), Some(TokenTickMinutes)}

\* the tables a probe starts from: empty, after one signup, after its
\* verification
StartTables ==
    LET created == {signup_run(<<>>, 0, e, n, p, p, o, s, TRUE).users :
                       e \in Emails, n \in Names, p \in Passwords,
                       o \in OtpCodes, s \in Salts}
        verified == {verify_email_run(db, 0, db[1].email, db[1].otp_code[1]).users :
                       db \in created}
    IN  {<<>>} \cup created \cup verified

TokenInit ==
    /\ users \in StartTables
    /\ now = 0
    /\ call = [op |-> "start", email |-> ""]
    /\ response = NoReply
    /\ outbox = <<>>
    /\ superseded = [e \in Emails |-> None]
    /\ consumed = [e \in Emails |-> None]
    /\ bearer = None
    /\ payload = None
    /\ inflight = [w \in Workers |-> Idle]
    /\ open_sessions = 0

\* a new token is in the client's hands: nothing is known of it yet
Held(op, token) ==
    /\ bearer' = Some(token)
    /\ payload' = None
    /\ response' = NoReply
    /\ call' = [op |-> op, email |-> ""]
    /\ UNCHANGED <<users, now, outbox, superseded, consumed, inflight,
                   open_sessions>>

issue_token(sub, expires_delta) ==
    Held("create_access_token", create_access_token(sub, expires_delta, now))

\* the client changes the subject, the expiry or the signature of its token
alter_token ==
    /\ bearer # None
    /\ \/ \E sub \in TokenSubjects \ {bearer[1].sub} :
             Held("alter_token", [bearer[1] EXCEPT !.sub = sub])
       \/ /\ bearer[1].exp < (MaxTokenTicks + 2) * TokenTickMinutes
          /\ Held("alter_token", [bearer[1] EXCEPT !.exp = @ + TokenTickMinutes])
       \/ /\ bearer[1].sig[2] = SECRET_KEY
          /\ Held("alter_token", [bearer[1] EXCEPT !.sig[2] = "guessed-key"])

decode_token ==
    /\ bearer # None
    /\ payload' = verify_token(bearer[1], now)
    /\ call' = [op |-> "verify_token", email |-> ""]
    /\ UNCHANGED <<users, now, response, outbox, superseded, consumed, bearer,
                   inflight, open_sessions>>

TokenTick ==
    /\ now + TokenTickMinutes <= MaxTokenTicks * TokenTickMinutes
    /\ now' = now + TokenTickMinutes
    /\ UNCHANGED <<users, call, response, outbox, superseded, consumed,
                   bearer, payload, inflight, open_sessions>>

TokenNext ==
    \/ \E sub \in TokenSubjects, ttl \in TokenLifetimes : issue_token(sub, ttl)
    \/ alter_token
    \/ decode_token
    \/ bearer # None /\ get_me(bearer[1])
    \/ TokenTick

TokenSpec == TokenInit /\ [][TokenNext]_vars

\* ------------------------------------------------------ a client's session
\* one account is opened; the client keeps the token a response returned and
\* presents it to the guarded routes while the account's requests go on

\* the client stores the token of the response it has just received
keep_token ==
    /\ response.access_token # None
    /\ bearer' = response.access_token
    /\ UNCHANGED <<users, now, call, response, outbox, superseded, consumed,
                   payload, inflight, open_sessions>>

\* GET /protected-example with a bearer token
protected_route(token) ==
    \E r \in {protected_route_run(users, now, token)} :
        /\ Handled("protected_route", "", r)
        /\ UNCHANGED <<superseded, consumed>>

SessionNext ==
    \/ users = <<>> /\ \E e \in Emails, p \in Passwords : signup(e, p, p)
    \/ \E e \in Emails, o \in OtpCodes : verify_email(e, o)
    \/ \E e \in Emails : resend_otp(e)
    \/ \E e \in Emails, p \in Passwords : login(e, p)
    \/ \E e \in Emails : forgot_password(e)
    \/ \E e \in Emails, o \in OtpCodes, p \in Passwords : reset_password(e, o, p, p)
    \/ keep_token
    \/ bearer # None /\ get_me(bearer[1])
    \/ bearer # None /\ protected_route(bearer[1])
    \/ Tick

SessionSpec == Init /\ [][SessionNext]_vars

\* ------------------------------------------------- requests served side by side
\* Each worker process serves one request.  A handler queries the row, checks
\* it and sets the new attribute values on the loaded object; db.commit()
\* later writes the attributes that changed (UPDATE ... SET the changed
\* columns WHERE id = ...), or inserts the new row.  Between a worker's query
\* and its commit the other worker may query and commit.

\* the handler has read the table and computed its outcome r from what it read:
\* an outcome that writes nothing is answered at once, one that writes waits
\* for its commit
begin(w, op, email, r) ==
    /\ inflight[w].phase = "idle"
    /\ IF r.users = users
       THEN /\ inflight' = [inflight EXCEPT
                               ![w] = Request("done", op, email, None, None,
                                              Some(r.response))]
            /\ response' = r.response
            /\ outbox' = r.outbox
            /\ call' = [op |-> op, email |-> email]
            /\ open_sessions' = get_db_release(get_db_acquire(open_sessions),
                                                r.response.status_code # 200)
       ELSE /\ inflight' = [inflight EXCEPT
                               ![w] = Request("read", op, email, Some(users),
                                              Some(r), None)]
            /\ open_sessions' = get_db_acquire(open_sessions)
            /\ UNCHANGED <<call, response, outbox>>
    /\ UNCHANGED <<users, now, superseded, consumed, bearer, payload>>

\* the columns of row i the handler changed on the object it loaded
dirty(base, plan, i) == {f \in DOMAIN base[i] : plan[i][f] # base[i][f]}

\* UPDATE users SET the dirty columns WHERE id = i, on the table as it is now
flush(db, base, plan, i) ==
    [db EXCEPT ![i] = [f \in DOMAIN db[i] |->
                          IF f \in dirty(base, plan, i) THEN plan[i][f]
                          ELSE db[i][f]]]

\* db.commit() of a pending request: the insert of signup's row, which the
\* unique index on email can reject (IntegrityError, not caught: a 500), or
\* the update of the loaded row; the response is built from the refreshed row
commit_run(db, base, plan) ==
    IF Len(plan.users) > Len(base)
    THEN LET row == [plan.users[Len(plan.users)] EXCEPT !.id = Len(db) + 1]
             saved == insert(db, row)
         IN  IF ~saved.ok THEN Outcome(db, InternalServerError, <<>>)
             ELSE Outcome(saved.db, plan.response, plan.outbox)
    ELSE LET i == CHOOSE j \in DOMAIN base : plan.users[j] # base[j]
             written == flush(db, base, plan.users, i)
             reply == IF plan.response.user = None THEN plan.response
                      ELSE [plan.response EXCEPT
                               !.user = Some(UserResponse(written[i]))]
         IN  Outcome(written, reply, plan.outbox)

commit(w) ==
    /\ inflight[w].phase = "read"
    /\ \E r \in {commit_run(users, inflight[w].base[1], inflight[w].plan[1])} :
          /\ users' = r.users
          /\ response' = r.response
          /\ outbox' = r.outbox
          /\ call' = [op |-> inflight[w].op, email |-> inflight[w].email]
          /\ inflight' = [inflight EXCEPT ![w].phase = "done",
                                          ![w].reply = Some(r.response)]
          /\ open_sessions' = get_db_release(open_sessions,
                                              r.response.status_code # 200)
    /\ UNCHANGED <<now, superseded, consumed, bearer, payload>>

signup_begin(w, email, password) ==
    \E full_name \in Names, otp \in OtpCodes, salt \in Salts :
        begin(w, "signup", email,
              signup_run(users, now, email, full_name, password, password,
                         otp, salt, TRUE))

verify_email_begin(w, email, otp_code) ==
    begin(w, "verify_email", email, verify_email_run(users, now, email, otp_code))

resend_otp_begin(w, email) ==
    \E otp \in OtpCodes :
        begin(w, "resend_otp", email, resend_otp_run(users, now, email, otp, TRUE))

login_begin(w, email, password) ==
    \E otp \in OtpCodes :
        begin(w, "login", email, login_run(users, now, email, password, otp, TRUE))

forgot_password_begin(w, email) ==
    \E otp \in OtpCodes :
        begin(w, "forgot_password", email,
              forgot_password_run(users, now, email, otp, TRUE))

reset_password_begin(w, email, otp_code, new_password) ==
    \E salt \in Salts :
        begin(w, "reset_password", email,
              reset_password_run(users, now, email, otp_code, new_password,
                                 new_password, salt))

\* the clock of the workers, by the minute, up to MaxConcTime minutes
MaxConcTime == 2

ConcTick ==
    /\ now + 1 <= MaxConcTime
    /\ now' = now + 1
    /\ UNCHANGED <<users, call, response, outbox, superseded, consumed,
                   bearer, payload, inflight, open_sessions>>

ConcInit ==
    /\ users \in StartTables
    /\ now = 0
    /\ call = [op |-> "start", email |-> ""]
    /\ response = NoReply
    /\ outbox = <<>>
    /\ superseded = [e \in Emails |-> None]
    /\ consumed = [e \in Emails |-> None]
    /\ bearer = None
    /\ payload = None
    /\ inflight = [w \in Workers |-> Idle]
    /\ open_sessions = 0

ConcNext ==
    \/ ConcTick
    \/ \E w \in Workers :
        \/ \E e \in Emails, p \in Passwords : signup_begin(w, e, p)
        \/ \E e \in Emails, o \in OtpCodes : verify_email_begin(w, e, o)
        \/ \E e \in Emails : resend_otp_begin(w, e)
        \/ \E e \in Emails, p \in Passwords : login_begin(w, e, p)
        \/ \E e \in Emails : forgot_password_begin(w, e)
        \/ \E e \in Emails, o \in OtpCodes, p \in Passwords :
               reset_password_begin(w, e, o, p)
        \/ commit(w)

ConcSpec == ConcInit /\ [][ConcNext]_vars

\* ================================================================ properties
\* the rows of an email, read off the table directly
AccountsOf(db, email) == {i \in DOMAIN db : db[i].email = email}
Registered(db, email) == AccountsOf(db, email) # {}
Account(db, email) == db[CHOOSE i \in AccountsOf(db, email) : TRUE]
\* a step in which the request op was handled for an email: A is that action
Ran(op, email, A) == call'.op = op /\ call'.email = email /\ A
\* every row but those of an email is left as it was
OthersKept(db, db2, email) ==
    \A i \in DOMAIN db : db[i].email # email => (i \in DOMAIN db2 /\ db2[i] = db[i])

\* the fields of schemas.UserResponse
AccountViewFields == {"id", "email", "full_name", "is_verified", "created_at"}

\* C1: a signup on an email that is not registered, with password equal to
\* confirm_password, leaves exactly one new account for the email, unverified,
\* with an OTP code and an OTP expiry; it dispatches one verify-purpose
\* notification carrying that code and its response holds no token.
C1_SignupCreatesUnverified ==
    [][\A e \in Emails, p \in Passwords :
          (Ran("signup", e, signup(e, p, p)) /\ ~Registered(users, e)) =>
             /\ Len(users') = Len(users) + 1
             /\ Cardinality(AccountsOf(users', e)) = 1
             /\ OthersKept(users, users', e)
             /\ LET u == Account(users', e)
                IN  /\ u.is_verified = FALSE
                    /\ u.otp_code # None
                    /\ u.otp_expires_at # None
                    /\ verify_password(p, u.hashed_password)
                    /\ Len(outbox') = 1
                    /\ outbox'[1].to = e
                    /\ outbox'[1].purpose = "verify"
                    /\ Some(outbox'[1].code) = u.otp_code
             /\ response'.status_code = 200
             /\ response'.access_token = None
      ]_vars

C1_Witness ==
    /\ call.op = "signup"
    /\ response.status_code = 200
    /\ Registered(users, call.email)
    /\ Account(users, call.email).is_verified = FALSE
    /\ Account(users, call.email).otp_code # None
    /\ Len(outbox) = 1

\* C2: once an account exists for an email, every signup for that email fails
\* with DuplicateEmail whatever the passwords (equal or not), the table is
\* left as it was, and the email keeps exactly one account.
C2_ResignupFails ==
    [][\A e \in Emails :
          Registered(users, e) =>
             /\ Cardinality(AccountsOf(users', e)) = 1
             /\ \A p \in Passwords, c \in Passwords :
                   Ran("signup", e, signup(e, p, c)) =>
                      /\ response' = DuplicateEmail
                      /\ users' = users
                      /\ outbox' = <<>>
      ]_vars

C2_Witness ==
    /\ call.op = "signup"
    /\ response = DuplicateEmail
    /\ Cardinality(AccountsOf(users, call.email)) = 1

\* C3: verify_email on an unverified account with the stored code before its
\* expiry sets is_verified, clears otp_code and otp_expires_at and returns a
\* token whose subject is the account's id; a verified account stays verified
\* and every verify_email for it fails with AlreadyVerified, whatever the code.
C3_VerifyOnce ==
    [][\A e \in Emails :
          Registered(users, e) =>
             LET u == Account(users, e)
             IN  /\ \A o \in OtpCodes :
                       ( /\ Ran("verify_email", e, verify_email(e, o))
                         /\ ~u.is_verified
                         /\ u.otp_code = Some(o)
                         /\ u.otp_expires_at # None
                         /\ now < u.otp_expires_at[1] ) =>
                            /\ Account(users', e) =
                                   [u EXCEPT !.is_verified = TRUE, !.otp_code = None,
                                             !.otp_expires_at = None]
                            /\ OthersKept(users, users', e)
                            /\ response'.status_code = 200
                            /\ response'.access_token # None
                            /\ response'.access_token[1].sub = JsonNumber(u.id)
                 /\ u.is_verified =>
                       /\ Account(users', e).is_verified
                       /\ \A o \in OtpCodes :
                             Ran("verify_email", e, verify_email(e, o)) =>
                                (response' = AlreadyVerified /\ users' = users)
      ]_vars

C3_Witness ==
    /\ call.op = "verify_email"
    /\ response = AlreadyVerified
    /\ consumed[call.email] # None
    /\ Account(users, call.email).is_verified
    /\ Account(users, call.email).otp_code = None

\* C4: with the stored code presented at or after otp_expires_at, verify_email
\* on an unverified account fails with OTPExpired, returns no token and leaves
\* the account unverified; reset_password fails with OTPExpired likewise and
\* leaves password_hash as it was.
C4_ExpiredCodeRejected ==
    [][\A e \in Emails, o \in OtpCodes :
          ( /\ Registered(users, e)
            /\ Account(users, e).otp_code = Some(o)
            /\ Account(users, e).otp_expires_at # None
            /\ now >= Account(users, e).otp_expires_at[1] ) =>
               /\ ( /\ Ran("verify_email", e, verify_email(e, o))
                    /\ ~Account(users, e).is_verified ) =>
                     /\ response' = OTPExpired
                     /\ response'.access_token = None
                     /\ users' = users
                     /\ ~Account(users', e).is_verified
               /\ \A p \in Passwords, c \in Passwords :
                     Ran("reset_password", e, reset_password(e, o, p, c)) =>
                        /\ response' = OTPExpired
                        /\ users' = users
                        /\ Account(users', e).hashed_password =
                               Account(users, e).hashed_password
      ]_vars

\* the code is presented exactly at its expiry
C4_Witness ==
    /\ call.op = "verify_email"
    /\ response = OTPExpired
    /\ Account(users, call.email).otp_expires_at = Some(now)
    /\ ~Account(users, call.email).is_verified


\* C5 as stated: after a successful resend_otp, a verify_email on the still
\* unverified account with the code the resend overwrote fails with InvalidOTP.
C5_OldCodeAlwaysInvalid ==
    [][\A e \in Emails, o \in OtpCodes :
          ( /\ Ran("verify_email", e, verify_email(e, o))
            /\ superseded[e] = Some(o)
            /\ Registered(users, e)
            /\ ~Account(users, e).is_verified ) =>
               response' = InvalidOTP
      ]_vars

\* C5 amended: a successful resend_otp stores the code it generated, with a
\* fresh expiry, and notifies that same code; afterwards a verify_email with
\* the overwritten code fails with InvalidOTP whenever the generated code
\* differs from it, and is treated as the current code (accepted before the
\* expiry, OTPExpired from it on) when generate_otp drew the same code again.
C5_OldCodeInvalidUnlessRedrawn ==
    [][\A e \in Emails :
          /\ ( /\ Ran("resend_otp", e, resend_otp(e))
               /\ Registered(users, e)
               /\ ~Account(users, e).is_verified ) =>
                /\ response'.status_code = 200
                /\ Len(outbox') = 1
                /\ outbox'[1].purpose = "verify"
                /\ Account(users', e).otp_code = Some(outbox'[1].code)
                /\ Account(users', e).otp_expires_at = Some(now + OTP_EXPIRE_MINUTES)
                /\ superseded'[e] = Account(users, e).otp_code
          /\ \A o \in OtpCodes :
                ( /\ Ran("verify_email", e, verify_email(e, o))
                  /\ superseded[e] = Some(o)
                  /\ Registered(users, e)
                  /\ ~Account(users, e).is_verified ) =>
                     LET u == Account(users, e)
                     IN  IF u.otp_code # Some(o) THEN response' = InvalidOTP
                         ELSE IF now < u.otp_expires_at[1]
                              THEN response'.access_token # None
                              ELSE response' = OTPExpired
      ]_vars

\* the overwritten code is presented after a resend that drew another code
C5_Witness ==
    /\ call.op = "verify_email"
    /\ response = InvalidOTP
    /\ superseded[call.email] # None
    /\ superseded[call.email] # Account(users, call.email).otp_code
    /\ ~Account(users, call.email).is_verified

\* C6: login with the correct password on an unverified account returns no
\* token: it stores a generated code with the expiry now + 10 minutes,
\* dispatches exactly one verify-purpose notification carrying that code, and
\* fails with EmailNotVerified.
C6_UnverifiedLoginResends ==
    [][\A e \in Emails, p \in Passwords :
          ( /\ Ran("login", e, login(e, p))
            /\ Registered(users, e)
            /\ ~Account(users, e).is_verified
            /\ verify_password(p, Account(users, e).hashed_password) ) =>
               /\ response' = EmailNotVerified
               /\ response'.access_token = None
               /\ Len(outbox') = 1
               /\ outbox'[1].purpose = "verify"
               /\ outbox'[1].to = e
               /\ outbox'[1].code \in OtpCodes
               /\ Account(users', e) =
                      [Account(users, e) EXCEPT
                          !.otp_code = Some(outbox'[1].code),
                          !.otp_expires_at = Some(now + OTP_EXPIRE_MINUTES)]
               /\ OthersKept(users, users', e)
      ]_vars

\* the login replaced a code issued earlier by one with a later expiry
C6_Witness ==
    /\ call.op = "login"
    /\ response = EmailNotVerified
    /\ now > 0
    /\ Len(outbox) = 1
    /\ Account(users, call.email).otp_code = Some(outbox[1].code)
    /\ Account(users, call.email).otp_expires_at = Some(now + OTP_EXPIRE_MINUTES)

\* C7: in every state of the table, a login with an email that is not
\* registered and a login with a registered email and a wrong password get the
\* same response (InvalidCredentials: same status, same message), whether or
\* not the registered account is verified, and neither changes the table nor
\* sends a mail.
C7_LoginErrorsIndistinguishable ==
    \A e1 \in Emails, e2 \in Emails, p1 \in Passwords, p2 \in Passwords,
       otp \in OtpCodes, sent \in BOOLEAN :
        ( /\ ~Registered(users, e1)
          /\ Registered(users, e2)
          /\ ~verify_password(p2, Account(users, e2).hashed_password) ) =>
             LET unknown == login_run(users, now, e1, p1, otp, sent)
                 wrong == login_run(users, now, e2, p2, otp, sent)
             IN  /\ unknown.response = wrong.response
                 /\ unknown.response = InvalidCredentials
                 /\ unknown.users = users /\ wrong.users = users
                 /\ unknown.outbox = <<>> /\ wrong.outbox = <<>>

\* a wrong password was refused on an unverified account, next to an unknown email
C7_Witness ==
    /\ call.op = "login"
    /\ response = InvalidCredentials
    /\ Registered(users, call.email)
    /\ ~Account(users, call.email).is_verified
    /\ \E e \in Emails : ~Registered(users, e)

\* C8: in every state of the table, forgot_password gets the same
\* acknowledgement for every email: registered or not, verified or not.
C8_ForgotAckIndistinguishable ==
    \A e1 \in Emails, e2 \in Emails, o1 \in OtpCodes, o2 \in OtpCodes,
       s1 \in BOOLEAN, s2 \in BOOLEAN :
        /\ forgot_password_run(users, now, e1, o1, s1).response =
               forgot_password_run(users, now, e2, o2, s2).response
        /\ forgot_password_run(users, now, e1, o1, s1).response = Acknowledged

\* the acknowledgement was returned for a registered email, next to an unknown one
C8_Witness ==
    /\ call.op = "forgot_password"
    /\ response = Acknowledged
    /\ Registered(users, call.email)
    /\ Len(outbox) = 1
    /\ \E e \in Emails : ~Registered(users, e)

\* C9: reset_password on an account with the stored code before its expiry
\* and new_password equal to confirm_password replaces password_hash: the new
\* password verifies, the old one (when different) does not; both OTP fields
\* are cleared, is_verified is unchanged and the response holds no token.
C9_ResetReplacesPassword ==
    [][\A e \in Emails, o \in OtpCodes, p \in Passwords :
          ( /\ Ran("reset_password", e, reset_password(e, o, p, p))
            /\ Registered(users, e)
            /\ Account(users, e).otp_code = Some(o)
            /\ Account(users, e).otp_expires_at # None
            /\ now < Account(users, e).otp_expires_at[1] ) =>
               LET u == Account(users, e)
                   v == Account(users', e)
               IN  /\ verify_password(p, v.hashed_password)
                   /\ \A q \in Passwords :
                         (q # p /\ verify_password(q, u.hashed_password)) =>
                            ~verify_password(q, v.hashed_password)
                   /\ v.otp_code = None
                   /\ v.otp_expires_at = None
                   /\ v.is_verified = u.is_verified
                   /\ v.id = u.id /\ v.email = u.email
                   /\ OthersKept(users, users', e)
                   /\ response'.status_code = 200
                   /\ response'.access_token = None
      ]_vars

\* a reset succeeded on an unverified account and consumed its code
C9_Witness ==
    /\ call.op = "reset_password"
    /\ response.status_code = 200
    /\ response.access_token = None
    /\ consumed[call.email] # None
    /\ Account(users, call.email).otp_code = None
    /\ Account(users, call.email).otp_expires_at = None
    /\ ~Account(users, call.email).is_verified

\* C10: a code consumed by a successful verify_email or reset_password is
\* refused from then on, until a new OTP is issued for the account: every
\* verify_email or reset_password presenting it fails with InvalidOTP,
\* OTPExpired or AlreadyVerified and leaves the table as it was.
C10_OtpSingleUse ==
    [][\A e \in Emails, o \in OtpCodes :
          consumed[e] = Some(o) =>
             /\ Ran("verify_email", e, verify_email(e, o)) =>
                   /\ response' \in {InvalidOTP, OTPExpired, AlreadyVerified}
                   /\ users' = users
             /\ \A p \in Passwords, c \in Passwords :
                   Ran("reset_password", e, reset_password(e, o, p, c)) =>
                      /\ response' \in {InvalidOTP, OTPExpired, AlreadyVerified}
                      /\ users' = users
      ]_vars

\* a code consumed by a reset was presented again
C10_Witness ==
    /\ call.op \in {"verify_email", "reset_password"}
    /\ response = InvalidOTP
    /\ consumed[call.email] # None
    /\ ~Account(users, call.email).is_verified

\* C11: OTPs are single-purpose: the code just mailed by forgot_password
\* (purpose reset) is not accepted by verify_email, and the code just mailed
\* by signup, resend_otp or login (purpose verify) is not accepted by
\* reset_password.
C11_OtpSinglePurpose ==
    [][\A e \in Emails, o \in OtpCodes :
          ( /\ Len(outbox) = 1
            /\ outbox[1].to = e
            /\ outbox[1].code = o ) =>
               /\ ( /\ outbox[1].purpose = "reset"
                    /\ Ran("verify_email", e, verify_email(e, o)) ) =>
                       (response'.access_token = None /\ users' = users)
               /\ \A p \in Passwords, c \in Passwords :
                     ( /\ outbox[1].purpose = "verify"
                       /\ Ran("reset_password", e, reset_password(e, o, p, c)) ) =>
                          (response'.status_code # 200 /\ users' = users)
      ]_vars

\* C14: in every reachable state every account has otp_code present exactly
\* when otp_expires_at is present.
C14_OtpPairTogether ==
    \A i \in DOMAIN users :
        (users[i].otp_code = None) <=> (users[i].otp_expires_at = None)

\* an account whose pair was set by signup and then cleared by a verification
C14_Witness ==
    /\ call.op = "verify_email"
    /\ response.status_code = 200
    /\ Account(users, call.email).otp_code = None
    /\ Account(users, call.email).otp_expires_at = None

\* C15: verification is irreversible and accounts are never removed: in
\* every step every row stays in the table under its id and email, and a row
\* that is verified stays verified.
C15_VerifiedForGood ==
    [][\A i \in DOMAIN users :
          /\ i \in DOMAIN users'
          /\ users'[i].id = users[i].id
          /\ users'[i].email = users[i].email
          /\ users[i].is_verified => users'[i].is_verified
      ]_vars

\* a verified account went through forgot_password and reset_password
C15_Witness ==
    /\ call.op = "reset_password"
    /\ response.status_code = 200
    /\ Account(users, call.email).is_verified

\* C18: a failed notification dispatch never undoes the account mutation:
\* when the notifier reports failure during signup, resend_otp, login's
\* auto-resend or forgot_password, the created account or the replaced OTP
\* pair is in the store after the request, and the table and the response are
\* those of the same request with a successful dispatch.
C18_UnsentKeepsCommit ==
    [][\A e \in Emails :
          ( /\ call'.email = e
            /\ now' = now
            /\ Len(outbox') = 1
            /\ ~outbox'[1].sent ) =>
               /\ Registered(users', e)
               /\ Account(users', e).otp_code = Some(outbox'[1].code)
               /\ Account(users', e).otp_expires_at = Some(now + OTP_EXPIRE_MINUTES)
               /\ \A p \in Passwords, c \in Passwords :
                     Ran("signup", e, signup(e, p, c)) =>
                        \E n \in Names, s \in Salts :
                           LET r == signup_run(users, now, e, n, p, c,
                                               outbox'[1].code, s, TRUE)
                           IN  r.users = users' /\ r.response = response'
               /\ Ran("resend_otp", e, resend_otp(e)) =>
                     LET r == resend_otp_run(users, now, e, outbox'[1].code, TRUE)
                     IN  r.users = users' /\ r.response = response'
               /\ \A p \in Passwords :
                     Ran("login", e, login(e, p)) =>
                        LET r == login_run(users, now, e, p, outbox'[1].code, TRUE)
                        IN  r.users = users' /\ r.response = response'
               /\ Ran("forgot_password", e, forgot_password(e)) =>
                     LET r == forgot_password_run(users, now, e, outbox'[1].code, TRUE)
                     IN  r.users = users' /\ r.response = response'
      ]_vars

C18_Witness ==
    /\ call.op = "signup"
    /\ Len(outbox) = 1
    /\ ~outbox[1].sent
    /\ Registered(users, call.email)
    /\ response.status_code = 200

\* C19: no response of signup, verify_email, resend_otp, login,
\* forgot_password, reset_password or get_me, successful or failing, carries
\* the account's password hash, its otp_code or its otp_expires_at: a response
\* is a status with a detail or message that is no OTP code, a token whose
\* payload holds the subject id and the token's expiry, and an account view,
\* and the account view of every row holds only id, email, full_name,
\* is_verified and created_at, with the row's values.
C19_NoSecretServedOut ==
    /\ DOMAIN response = {"status_code", "detail", "message", "access_token", "user"}
    /\ \A c \in OtpCodes : response.detail # Some(c) /\ response.message # Some(c)
    /\ response.access_token # None =>
          /\ DOMAIN response.access_token[1] = {"sub", "exp", "sig"}
          /\ \E i \in DOMAIN users :
                response.access_token[1].sub = JsonNumber(users[i].id)
          /\ response.access_token[1].exp >= ACCESS_TOKEN_EXPIRE_MINUTES
    /\ response.user # None =>
          /\ DOMAIN response.user[1] = AccountViewFields
          /\ \E i \in DOMAIN users :
                \A f \in AccountViewFields : response.user[1][f] = users[i][f]
    /\ \A i \in DOMAIN users :
          DOMAIN UserResponse(users[i]) = AccountViewFields

C19_Witness ==
    /\ call.op = "login"
    /\ response.status_code = 200
    /\ response.user # None
    /\ Account(users, call.email).otp_code # None
    /\ Account(users, call.email).otp_expires_at # None

\* C20: every OTP issuance at time t stores the expiry t + 10 minutes;
\* is_otp_valid(expires_at) at time now is true if and only if expires_at is
\* present and now < expires_at, strictly; so the stored code, presented to
\* verify_email or reset_password at t + 10 minutes or later, is rejected
\* with OTPExpired and changes nothing.
C20_ExpiryArithmetic ==
    [][/\ \A e \in Emails :
             (call'.email = e /\ now' = now /\ Len(outbox') = 1) =>
                Account(users', e).otp_expires_at = Some(now + 10)
       /\ \A i \in DOMAIN users' :
             is_otp_valid(users'[i].otp_expires_at, now') <=>
                ( /\ users'[i].otp_expires_at # None
                  /\ now' < users'[i].otp_expires_at[1] )
       /\ \A e \in Emails, o \in OtpCodes :
             ( /\ Registered(users, e)
               /\ Account(users, e).otp_code = Some(o)
               /\ Account(users, e).otp_expires_at # None
               /\ now >= Account(users, e).otp_expires_at[1] ) =>
                  /\ ( /\ ~Account(users, e).is_verified
                       /\ Ran("verify_email", e, verify_email(e, o)) ) =>
                          (response' = OTPExpired /\ users' = users)
                  /\ \A p \in Passwords :
                        Ran("reset_password", e, reset_password(e, o, p, p)) =>
                           (response' = OTPExpired /\ users' = users)
      ]_vars

C20_Witness ==
    /\ call.op = "verify_email"
    /\ response = OTPExpired
    /\ Account(users, call.email).otp_expires_at = Some(now)
    /\ now = 10

\* C12: token round trip: for every account id and lifetime, verify_token
\* applied to the token create_access_token returned for that id yields a
\* payload whose subject is that id while the lifetime has not elapsed, yields
\* nothing once it has elapsed, and yields nothing for a token that differs
\* from an issued one (its signature does not match its subject and expiry).
C12_TokenRoundTrip ==
    [][( /\ bearer # None
         /\ decode_token
         /\ call'.op = "verify_token" ) =>
            LET token == bearer[1]
                issued == /\ token.sig = Hmac(SECRET_KEY, token.sub, token.exp)
                          /\ \E id \in TokenIds : token.sub = JsonNumber(id)
                signed == token.sig = Hmac(SECRET_KEY, token.sub, token.exp)
            IN  /\ (issued /\ now < token.exp) =>
                      (payload' # None /\ payload'[1].sub = token.sub)
                /\ (issued /\ now >= token.exp) => payload' = None
                /\ ~signed => payload' = None
      ]_vars

\* the id a subject names, whether it is carried as a number or as text
SubjectIds(sub) ==
    IF sub = None THEN {}
    ELSE IF sub[1] = "number" THEN {sub[2]}
    ELSE {i \in DOMAIN IdText : IdText[i] = sub[2]}

\* C13: get_current_user fails with 401 exactly when the token is invalid
\* (its signature does not match, or it has expired), carries no subject, or
\* its subject id matches no row of the table; in every other case it yields
\* the row whose id is the token's subject; and it never changes the table.
C13_GuardResolves ==
    [][( /\ bearer # None
         /\ Ran("get_me", "", get_me(bearer[1])) ) =>
            LET token == bearer[1]
                invalid == \/ token.sig # Hmac(SECRET_KEY, token.sub, token.exp)
                           \/ now >= token.exp
                matches == {i \in DOMAIN users : users[i].id \in SubjectIds(token.sub)}
            IN  /\ users' = users
                /\ (invalid \/ token.sub = None \/ matches = {}) <=>
                      (response' = credentials_exception)
                /\ ~(invalid \/ token.sub = None \/ matches = {}) =>
                      \E i \in matches :
                         /\ response'.status_code = 200
                         /\ response'.user = Some(UserResponse(users[i]))
      ]_vars

\* C16: in every reachable state, those reached by interleaving requests
\* whose read of the account and commit of the update are separate steps
\* included, no account has is_verified = TRUE together with an unexpired
\* OTP that was issued for the purpose verify (the code a committed signup,
\* resend_otp or unverified login wrote and notified).
C16_NoVerifiedWithLiveVerifyOtp ==
    \A w \in Workers :
        ( /\ inflight[w].phase = "done"
          /\ inflight[w].plan # None
          /\ inflight[w].plan[1].outbox # <<>>
          /\ inflight[w].plan[1].outbox[1].purpose = "verify"
          /\ Registered(users, inflight[w].email) ) =>
             LET u == Account(users, inflight[w].email)
             IN  ~( /\ u.is_verified
                    /\ u.otp_code = Some(inflight[w].plan[1].outbox[1].code)
                    /\ u.otp_expires_at # None
                    /\ now < u.otp_expires_at[1] )

\* C17: when two signup requests for the same unregistered email run
\* concurrently (both pass the existence check before either commits), once
\* both are answered exactly one account exists for the email, one request
\* has succeeded and the other has failed with DuplicateEmail.
C17_ConcurrentSignupsTranslated ==
    \A w1 \in Workers : \A w2 \in Workers \ {w1} :
        ( /\ inflight[w1].phase = "done" /\ inflight[w2].phase = "done"
          /\ inflight[w1].op = "signup" /\ inflight[w2].op = "signup"
          /\ inflight[w1].email = inflight[w2].email
          /\ inflight[w1].plan # None /\ inflight[w2].plan # None
          /\ inflight[w1].base = inflight[w2].base ) =>
             /\ Cardinality(AccountsOf(users, inflight[w1].email)) = 1
             /\ {inflight[w1].reply[1].status_code,
                 inflight[w2].reply[1].status_code} = {200, 400}
             /\ \/ inflight[w1].reply[1] = DuplicateEmail
                \/ inflight[w2].reply[1] = DuplicateEmail

\* C24: every call that fails with DuplicateEmail, PasswordMismatch, NotFound,
\* AlreadyVerified, InvalidOTP, OTPExpired or InvalidCredentials leaves every
\* account record unchanged and dispatches no notification; the only failing
\* call that changes the store is login failing with EmailNotVerified.
C24_FailuresChangeNothing ==
    [][now' = now =>
          /\ response' \in {DuplicateEmail, PasswordMismatch, NotFound,
                            AlreadyVerified, InvalidOTP, OTPExpired,
                            InvalidCredentials} =>
                (users' = users /\ outbox' = <<>>)
          /\ (response'.status_code # 200 /\ users' # users) =>
                (call'.op = "login" /\ response' = EmailNotVerified)
      ]_vars

C24_Witness ==
    /\ call.op = "verify_email"
    /\ response = OTPExpired
    /\ outbox = <<>>
    /\ Account(users, call.email).otp_code # None
    /\ ~Account(users, call.email).is_verified

\* C25: error precedence is fixed.  verify_email reports NotFound, then
\* AlreadyVerified, then InvalidOTP, then OTPExpired, so a wrong code against
\* an expired or cleared OTP yields InvalidOTP and not OTPExpired.
\* reset_password reports NotFound, then InvalidOTP, then OTPExpired, and
\* PasswordMismatch only when the code is correct and unexpired; then the OTP
\* is not consumed, and the same code with matching passwords completes the
\* reset while it is unexpired.
C25_ErrorPrecedence ==
    [][\A e \in Emails, o \in OtpCodes :
          /\ Ran("verify_email", e, verify_email(e, o)) =>
                IF ~Registered(users, e) THEN response' = NotFound
                ELSE LET u == Account(users, e)
                     IN  IF u.is_verified THEN response' = AlreadyVerified
                         ELSE IF u.otp_code # Some(o) THEN response' = InvalidOTP
                         ELSE IF ~(now < u.otp_expires_at[1]) THEN response' = OTPExpired
                         ELSE response'.status_code = 200
          /\ \A p \in Passwords, c \in Passwords :
                Ran("reset_password", e, reset_password(e, o, p, c)) =>
                   IF ~Registered(users, e) THEN response' = NotFound
                   ELSE LET u == Account(users, e)
                        IN  IF u.otp_code # Some(o) THEN response' = InvalidOTP
                            ELSE IF ~(now < u.otp_expires_at[1])
                                 THEN response' = OTPExpired
                            ELSE IF p # c
                                 THEN /\ response' = PasswordMismatch
                                      /\ users' = users
                            ELSE response'.status_code = 200
      ]_vars

\* a wrong code against an expired OTP is answered InvalidOTP
C25_Witness ==
    /\ call.op = "verify_email"
    /\ response = InvalidOTP
    /\ ~Account(users, call.email).is_verified
    /\ Account(users, call.email).otp_expires_at # None
    /\ Account(users, call.email).otp_expires_at[1] <= now

\* C26: forgot_password changes at most the OTP pair of the named account:
\* for an existing account it replaces otp_code and otp_expires_at and
\* dispatches exactly one reset-purpose notification with the stored code,
\* leaving is_verified, the password hash and every other row unchanged; for
\* an unknown email it changes nothing in the store and dispatches nothing.
C26_ForgotFrame ==
    [][\A e \in Emails :
          Ran("forgot_password", e, forgot_password(e)) =>
             IF Registered(users, e)
             THEN /\ Len(outbox') = 1
                  /\ outbox'[1].to = e
                  /\ outbox'[1].purpose = "reset"
                  /\ Len(users') = Len(users)
                  /\ OthersKept(users, users', e)
                  /\ Account(users', e) =
                        [Account(users, e) EXCEPT
                            !.otp_code = Some(outbox'[1].code),
                            !.otp_expires_at = Some(now + OTP_EXPIRE_MINUTES)]
             ELSE users' = users /\ outbox' = <<>>
      ]_vars

C26_Witness ==
    /\ call.op = "forgot_password"
    /\ Len(outbox) = 1
    /\ outbox[1].purpose = "reset"
    /\ Account(users, call.email).is_verified
    /\ Account(users, call.email).otp_code = Some(outbox[1].code)

C27_OneWinnerPerCode ==
    \A w1 \in Workers : \A w2 \in Workers \ {w1} :
        ( /\ inflight[w1].phase = "done" /\ inflight[w2].phase = "done"
          /\ inflight[w1].op = inflight[w2].op
          /\ inflight[w1].op \in {"verify_email", "reset_password"}
          /\ inflight[w1].email = inflight[w2].email
          /\ inflight[w1].plan # None /\ inflight[w2].plan # None
          /\ inflight[w1].base = inflight[w2].base ) =>
             /\ ~( /\ inflight[w1].reply[1].status_code = 200
                   /\ inflight[w2].reply[1].status_code = 200 )
             /\ \E w \in {w1, w2} :
                   inflight[w].reply[1] \in {AlreadyVerified, InvalidOTP}

\* the OTP pair an issuance request set on the row it loaded
IssuedPair(request) ==
    LET e == request.email
        row == Account(request.plan[1].users, e)
    IN  <<row.otp_code, row.otp_expires_at>>

\* C28: when two OTP issuances for the same account (resend_otp, login's
\* auto-resend, forgot_password) run concurrently, the pair stored once both
\* have committed is the code and the expiry written by one single issuance,
\* never the code of one with the expiry of the other, and afterwards only
\* the stored code is accepted: a different code notified by the losing
\* issuance fails with InvalidOTP.
C28_IssuedPairWhole ==
    \A w1 \in Workers : \A w2 \in Workers \ {w1} :
        ( /\ inflight[w1].phase = "done" /\ inflight[w2].phase = "done"
          /\ inflight[w1].op \in {"resend_otp", "login", "forgot_password"}
          /\ inflight[w2].op \in {"resend_otp", "login", "forgot_password"}
          /\ inflight[w1].email = inflight[w2].email
          /\ inflight[w1].plan # None /\ inflight[w2].plan # None
          /\ inflight[w1].plan[1].outbox # <<>>
          /\ inflight[w2].plan[1].outbox # <<>>
          /\ inflight[w1].base = inflight[w2].base ) =>
             LET u == Account(users, inflight[w1].email)
             IN  /\ <<u.otp_code, u.otp_expires_at>> \in
                       {IssuedPair(inflight[w1]), IssuedPair(inflight[w2])}
                 /\ \A w \in {w1, w2} :
                       LET o == inflight[w].plan[1].outbox[1].code
                       IN  (u.otp_code # Some(o) /\ ~u.is_verified) =>
                              verify_email_run(users, now, u.email, o).response
                                 = InvalidOTP

\* the rows a token's subject names, the subject being the number of an id
SubjectRows(db, token) == {i \in DOMAIN db : token.sub = JsonNumber(db[i].id)}

\* C22: session tokens are issued only for verified accounts: the subject of
\* every token verify_email or login returns is an account whose is_verified
\* is true when the token is issued and at every later time the client holds
\* it, and get_current_verified_user never answers 403 Forbidden to a token
\* the service issued.
C22_TokensOnlyForVerified ==
    [][/\ response'.access_token # None =>
             /\ call'.op \in {"verify_email", "login"}
             /\ SubjectRows(users', response'.access_token[1]) # {}
             /\ \A i \in SubjectRows(users', response'.access_token[1]) :
                   users'[i].is_verified
       /\ bearer' # None =>
             /\ SubjectRows(users', bearer'[1]) # {}
             /\ \A i \in SubjectRows(users', bearer'[1]) : users'[i].is_verified
       /\ ( /\ bearer # None
            /\ Ran("protected_route", "", protected_route(bearer[1])) ) =>
               response'.status_code # 403
      ]_vars

\* a token issued earlier is presented to the verified-only route
C22_Witness ==
    /\ call.op = "protected_route"
    /\ bearer # None
    /\ bearer[1].exp < now + ACCESS_TOKEN_EXPIRE_MINUTES
    /\ \A i \in SubjectRows(users, bearer[1]) : users[i].is_verified
    /\ response.status_code # 403
    /\ response.status_code # 0

\* C23: a token returned by a successful login or verify_email resolves
\* through get_current_user to the same account at every time before 1440
\* minutes have elapsed since it was issued, whatever requests are handled in
\* between, a successful reset_password included.
C23_TokenResolvesUntilExpiry ==
    [][( /\ bearer # None
         /\ now < bearer[1].exp
         /\ Ran("get_me", "", get_me(bearer[1])) ) =>
            /\ SubjectRows(users, bearer[1]) # {}
            /\ \A i \in SubjectRows(users, bearer[1]) :
                  /\ response'.status_code = 200
                  /\ response'.user = Some(UserResponse(users[i]))
      ]_vars

====
